---- MODULE Spec2Model ----
(***************************************************************************)
(* Model of the response segmentation and repair pipeline of vscode-ai-note *)
(* (src/core/analysisPostProcessor.ts).                                     *)
(*                                                                          *)
(* Text is a sequence of tokens.  A delimiter marker                        *)
(* ("---SECTION_START_3---") and a fixed heading line are one token each;   *)
(* the characters the header regex and trim() look at ("#", the section's   *)
(* digit, ".", " ", "\n") are one token each; any other token is ordinary   *)
(* text.  Positions are 0-based as in the source; -1 is "not found".        *)
(***************************************************************************)
EXTENDS Integers, Sequences, FiniteSets, TLC

VARIABLES
    \* ---- processAnalysisResult (one run) ----
    rawAiResponse,    \* parameter rawAiResponse
    args,             \* parameters language, platform, problemId, title
    pc,               \* position of the run in processAnalysisResult / _reRequestMissingSection
    i,                \* loop variable i of processAnalysisResult
    sectionsContent,  \* sectionsContent: entry k is sectionsContent[k], entries 1..i-1 are set
    retryCount,       \* retryCount of _reRequestMissingSection
    reResponse,       \* reResponse of the current loop iteration
    apiCalls,         \* per section: generateContent calls made with that section's repair prompt
    warnings,         \* per section: NotificationManager.showWarning calls naming it
    delays,           \* the setTimeout delays (ms) of the section being repaired, in order
    finalMarkdown,    \* the value returned by processAnalysisResult
    metadata,         \* the const metadata of processAnalysisResult, once it is built
    inFlight,         \* generateContent calls that were started and have not resolved
    uiCalls,          \* the NotificationManager calls made during the last step
    \* ---- _extractSectionContent called on its own ----
    rawText,          \* parameter rawText
    sectionNumber,    \* parameter sectionNumber
    extracted,        \* its return value
    xpc,              \* "call" before the call, "returned" after it
    \* ---- the surroundings of a run ----
    clockDate,        \* what new Date().toISOString().split("T")[0] yields now
    cancelled,        \* the caller no longer wants the result (the document was closed)
    \* ---- AnalyzeCodeCommand.run (one run) ----
    cmdInput,         \* what the run finds: API key, editor, document text, workspace
    cmdPc,            \* position of the run in AnalyzeCodeCommand.run
    analysisResult,   \* analysisResult
    cmdCalls,         \* generateContent calls made by the command
    writtenFile,      \* what FileSystemManager.writeFile has stored in the analysis file
    previewed,        \* markdown.showPreviewToSide was executed
    notices,          \* the showWarning / showError / showInformation calls, in order
    statusBar,        \* the status bar message is visible
    sentPrompt,       \* the prompt handed to generateContent
    \* ---- two runs of processAnalysisResult under way at once ----
    runs,             \* per run: its parameters, its position, the responses it received, its result
    frames,           \* per activation record: the locals sectionsContent and retryCount
    \* ---- the rest of the extension, each part studied on its own ----
    act,              \* activate() and showKeybindingSetupGuide (src/extension.ts)
    secret,           \* SecretManager and the secret storage (src/core/secretManager.ts)
    client,           \* one call of GeminiApiClient.generateContent
    setup             \* one run of SetupProblemCommand.run

pipeVars == <<rawAiResponse, args, pc, i, sectionsContent, retryCount, reResponse,
              apiCalls, warnings, delays, finalMarkdown, metadata, inFlight, uiCalls>>
extractVars == <<rawText, sectionNumber, extracted, xpc>>
envVars == <<clockDate, cancelled>>
cmdVars == <<cmdInput, cmdPc, analysisResult, cmdCalls, writtenFile, previewed, notices,
             statusBar, sentPrompt>>
sideVars == <<act, secret, client, setup>>
auxVars == <<runs, frames, sideVars>>
vars == <<pipeVars, extractVars, envVars, cmdVars, auxVars>>

----------------------------------------------------------------------------
(* Program constants *)

totalSections == 7
OneRetryMore == 2 + 1
MAX_RETRY_ATTEMPTS == 2
BackoffBaseMs == 1000
Sections == 1..totalSections

SECTION_START_MARKER == "---SECTION_START_"
SECTION_END_MARKER == "---SECTION_END_"

\* `${sectionNumber}` for the section numbers of the template
SectionDigit == <<"1", "2", "3", "4", "5", "6", "7">>

StartMarker(n) == SECTION_START_MARKER \o SectionDigit[n] \o "---"
EndMarker(n) == SECTION_END_MARKER \o SectionDigit[n] \o "---"
\* startMarker.length, in tokens
MarkerLength == 1

----------------------------------------------------------------------------
(* String primitives *)

IsSpace(t) == t \in {" ", "\n"}

\* F applied to the value of x, with x computed once
With(x, F(_)) == CHOOSE r \in {F(v) : v \in {x}} : TRUE

\* String.prototype.lastIndexOf in place of indexOf
IndexOfLast(text, search, position) ==
    LET hits == {j \in position..(Len(text) - 1) : text[j + 1] = search}
    IN IF hits = {} THEN -1 ELSE CHOOSE j \in hits : \A k \in hits : k <= j

\* String.prototype.indexOf(search, position)
IndexOf(text, search, position) ==
    LET hits == {j \in position..(Len(text) - 1) : text[j + 1] = search}
    IN IF hits = {} THEN -1 ELSE CHOOSE j \in hits : \A k \in hits : j <= k

\* String.prototype.substring(start, end), for 0 <= start <= end <= length
Substring(text, start, end) == SubSeq(text, start + 1, end)

\* String.prototype.trim()
Trim(s) ==
    With(s, LAMBDA t :
        LET solid == {j \in 1..Len(t) : ~IsSpace(t[j])}
        IN IF solid = {} THEN <<>>
           ELSE SubSeq(t, CHOOSE j \in solid : \A k \in solid : j <= k,
                          CHOOSE j \in solid : \A k \in solid : k <= j))

----------------------------------------------------------------------------
(* The header regex  ^\s*#+\s*N\.\s*[^\n]*\n?  with flag m *)

\* first position >= p (0-based) whose token is not in class C; Len(s) if none
SkipSpace(s, p) ==
    LET stop == {j \in p..(Len(s) - 1) : ~IsSpace(s[j + 1])}
    IN IF stop = {} THEN Len(s) ELSE CHOOSE j \in stop : \A k \in stop : j <= k

SkipHash(s, p) ==
    LET stop == {j \in p..(Len(s) - 1) : s[j + 1] # "#"}
    IN IF stop = {} THEN Len(s) ELSE CHOOSE j \in stop : \A k \in stop : j <= k

SkipToNewline(s, p) ==
    LET stop == {j \in p..(Len(s) - 1) : s[j + 1] = "\n"}
    IN IF stop = {} THEN Len(s) ELSE CHOOSE j \in stop : \A k \in stop : j <= k

\* token at 0-based position p, "" past the end
At(s, p) == IF p >= 0 /\ p < Len(s) THEN s[p + 1] ELSE ""

\* ^ under flag m: the start of the text or just after a line break
AtLineStart(s, p) == p = 0 \/ At(s, p - 1) = "\n"

\* the end (exclusive) of the regex's match starting at p, or -1.  Every
\* quantifier is greedy and none ever has to give back: \s* stops at a
\* non-space, #+ at a non-#, and after "\." the rest always matches.
HeaderMatchEnd(s, p, n) ==
    IF ~AtLineStart(s, p) THEN -1
    ELSE With(SkipSpace(s, p), LAMBDA q1 :
         With(SkipHash(s, q1), LAMBDA q2 :
         With(SkipSpace(s, q2), LAMBDA q3 :
         With(SkipSpace(s, q3 + 2), LAMBDA q4 :
         With(SkipToNewline(s, q4), LAMBDA q5 :
            IF q2 > q1 /\ At(s, q3) = SectionDigit[n] /\ At(s, q3 + 1) = "."
            THEN IF At(s, q5) = "\n" THEN q5 + 1 ELSE q5
            ELSE -1)))))

\* content.replace(headerRegex, ""): the leftmost match is removed
ReplaceHeader(content, n) ==
    With(content, LAMBDA c :
        LET starts == {p \in 0..Len(c) : HeaderMatchEnd(c, p, n) # -1}
        IN IF starts = {} THEN c
           ELSE LET p == CHOOSE q \in starts : \A r \in starts : q <= r
                IN Substring(c, 0, p) \o Substring(c, HeaderMatchEnd(c, p, n), Len(c)))

----------------------------------------------------------------------------
(* _extractSectionContent *)

\* the same without the check of line 118: the text runs to its end
ExtractToEndOfText(text, n) ==
    LET startIndex == IndexOf(text, StartMarker(n), 0)
    IN IF startIndex = -1 THEN <<>>
       ELSE LET endIndex == IndexOf(text, EndMarker(n), startIndex + MarkerLength)
            IN Trim(Trim(ReplaceHeader(
                   Substring(text, startIndex + MarkerLength,
                             IF endIndex = -1 THEN Len(text) ELSE endIndex), n)))

ExtractSectionContent(text, n) ==
    LET startIndex == IndexOf(text, StartMarker(n), 0)
    IN IF startIndex = -1 THEN <<>>
       ELSE LET endIndex == IndexOf(text, EndMarker(n), startIndex + MarkerLength)
            IN IF endIndex = -1 THEN <<>>
               ELSE Trim(Trim(ReplaceHeader(
                        Substring(text, startIndex + MarkerLength, endIndex), n)))

----------------------------------------------------------------------------
(* _getSectionTemplate, the placeholder of _reRequestMissingSection, and     *)
(* _generateMarkdownTemplate.  A fixed heading line is one token.            *)

\* lines 259-272; of each heading the Latin-script part is written here
GetSectionTemplate(n) ==
    CASE n = 1 -> "### 1. (Overall Analysis & Approach)"
      [] n = 2 -> "### 2. (Code Structure & Readability)"
      [] n = 3 -> "### 3. (Time Complexity Analysis)"
      [] n = 4 -> "### 4. (Space Complexity Analysis)"
      [] n = 5 -> "### 5. (Potential Issues & Bugs)"
      [] n = 6 -> "### 6. (Suggestions for Improvement)"
      [] n = 7 -> "### 7. (Alternative Approaches)"
      [] OTHER -> "### ?. unknown section"

\* an empty string returned in place of the text of line 206
PlaceholderEmpty(n) == <<>>

\* the string returned when every attempt failed (line 206), in English
Placeholder(n) ==
    <<"**[AI analysis error: section ", SectionDigit[n], " could not be generated]**",
      "\n", "\n",
      "_The AI did not generate this section. Add it by hand or try again._">>

\* the assembler's own text for an empty or missing entry (line 315)
AssemblerFallback == "_This section could not be generated._"

\* sectionsContent[k] || fallback
ContentOrFallback(content, k) ==
    IF k \in DOMAIN content /\ content[k] # <<>> THEN content[k]
    ELSE <<AssemblerFallback>>

\* the parameters taken as they are, without lines 70-74
MetadataUnchecked(a) ==
    [platform   |-> a.platform,
     problemId  |-> a.problemId,
     title      |-> a.title,
     language   |-> a.language,
     analyzedAt |-> a.today]

\* lines 69-82; a.today is the date the clock shows when line 69 is reached
Metadata(a) ==
    [platform   |-> IF a.platform # "Unknown" THEN a.platform ELSE "Unknown Platform",
     problemId  |-> IF a.problemId # "Unknown" THEN a.problemId ELSE "Unknown ID",
     title      |-> IF a.title # "Unknown" THEN a.title ELSE "Untitled Problem",
     language   |-> a.language,
     analyzedAt |-> a.today]

YamlFrontMatter(m) ==
    <<"---", "\n",
      "platform: ", m.platform, "\n",
      "problemId: ", m.problemId, "\n",
      "title: ", m.title, "\n",
      "language: ", m.language, "\n",
      "analyzedAt: ", m.analyzedAt, "\n",
      "---", "\n">>

MainHeading(m) ==
    <<"## ", m.platform, " ", m.problemId, " ", m.language, " code analysis">>

InitialSentence(m) ==
    <<m.platform>>
    \o (IF m.problemId # "Unknown ID" THEN <<" ", m.problemId>> ELSE <<>>)
    \o (IF m.title # "Untitled Problem" THEN <<" (", m.title, ")">> ELSE <<>>)
    \o <<" ", m.language, " code is as follows.">>

RECURSIVE SectionBlocks(_, _, _)
\* the loop of lines 312-317, from index k to last
SectionBlocks(content, k, last) ==
    IF k > last THEN <<>>
    ELSE <<GetSectionTemplate(k), "\n">> \o ContentOrFallback(content, k)
         \o <<"\n", "\n">> \o SectionBlocks(content, k + 1, last)

GenerateOneSectionShort(m, content) ==
    Trim(YamlFrontMatter(m) \o <<"\n">> \o MainHeading(m) \o <<"\n", "\n">>
         \o InitialSentence(m) \o <<"\n", "\n">>
         \o SectionBlocks(content, 1, totalSections - 1))

GenerateMarkdownTemplate(m, content) ==
    Trim(YamlFrontMatter(m) \o <<"\n">> \o MainHeading(m) \o <<"\n", "\n">>
         \o InitialSentence(m) \o <<"\n", "\n">>
         \o SectionBlocks(content, 1, totalSections))

----------------------------------------------------------------------------
(* Inputs of a run *)

\* most sections a raw response may lack
MaxMissing == 2

\* the outcome of generateContent: text, or undefined
NoResponse == [defined |-> FALSE, text |-> <<>>]
\* the analysis file does not exist / holds content
NoFile == [written |-> FALSE, content |-> <<>>]
FileWith(content) == [written |-> TRUE, content |-> content]
TextResponse(t) == [defined |-> TRUE, text |-> t]
\* if (reResponse): undefined and "" are both falsy
Truthy(r) == r.defined /\ r.text # <<>>

Body(n) == "body" \o SectionDigit[n]
Repaired(n) == <<"fix" \o SectionDigit[n], "\n", "-", " ", "more">>

\* what a raw response may hold for section n: the section as the prompt
\* template writes it (markers on their own lines, the heading repeated),
\* nothing, or a pair of markers around white space
RawFragment(n, kind) ==
    CASE kind = "full" ->
           <<StartMarker(n), "\n", "#", "#", "#", " ", SectionDigit[n], ".", " ",
             "title", "\n", Body(n), "\n", EndMarker(n), "\n">>
      [] kind = "absent" -> <<>>
      [] kind = "blank" -> <<StartMarker(n), "\n", " ", EndMarker(n), "\n">>

PresentKinds == {"full"}
MissingKinds == {"absent", "blank"}

RECURSIVE RawOf(_, _)
RawOf(kinds, n) ==
    IF n > totalSections THEN <<>>
    ELSE RawFragment(n, kinds[n]) \o RawOf(kinds, n + 1)

RawResponses ==
    {RawOf(kinds, 1) :
       kinds \in {k \in [Sections -> PresentKinds \cup MissingKinds] :
                    Cardinality({n \in Sections : k[n] \in MissingKinds}) <= MaxMissing}}

OtherSection(n) == (n % totalSections) + 1

\* what the collaborator may answer to the repair prompt of section n
RepairOutcomes(n) ==
    { NoResponse,
      TextResponse(<<>>),
      TextResponse(<<"I", " ", "cannot">>),
      TextResponse(<<StartMarker(n), "\n", EndMarker(n)>>),
      TextResponse(<<StartMarker(OtherSection(n)), Body(OtherSection(n)),
                     EndMarker(OtherSection(n))>>),
      TextResponse(<<StartMarker(n), "\n">> \o Repaired(n) \o <<"\n", EndMarker(n)>>),
      TextResponse(<<"Sure", "\n", StartMarker(n), "\n", "#", "#", " ", SectionDigit[n],
                     ".", " ", "title", "\n">> \o Repaired(n) \o <<" ", EndMarker(n)>>) }

Arguments ==
    { [language |-> "python", platform |-> "Unknown", problemId |-> "Unknown",
       title |-> "Unknown", today |-> "2025-07-20"],
      [language |-> "python", platform |-> "BOJ", problemId |-> "1234",
       title |-> "K", today |-> "2025-07-20"] }

----------------------------------------------------------------------------
(* processAnalysisResult and _reRequestMissingSection, one step per stretch  *)
(* of code between two awaits                                                *)

ZeroPerSection == [n \in Sections |-> 0]

\* before line 76 is reached there is no metadata object
NoMetadata == [platform |-> "", problemId |-> "", title |-> "", language |-> "",
               analyzedAt |-> ""]

\* generateContent (src/core/geminiApiClient.ts): what it tells the user before
\* it resolves to r.  Without a client object it shows one error and returns;
\* otherwise every path that yields undefined shows two errors, and the
\* finally block hides the status bar message on every path.
ClientUi(r) ==
    IF r.defined THEN {<<"hideStatusBarMessage">>}
    ELSE {<<"showError">>, <<"showError", "showError", "hideStatusBarMessage">>}

\* no command is running
CommandIdle ==
    /\ cmdInput = [initialized |-> FALSE, hasEditor |-> FALSE, code |-> <<>>,
                   hasWorkspace |-> FALSE, templateAvailable |-> FALSE,
                   language |-> "python",
                   fileInfo |-> [platform |-> "Unknown", problemId |-> "Unknown",
                                 title |-> "Unknown"]]
    /\ cmdPc = "idle"
    /\ sentPrompt = <<>>
    /\ analysisResult = NoResponse
    /\ cmdCalls = 0
    /\ writtenFile = NoFile
    /\ previewed = FALSE
    /\ notices = <<>>
    /\ statusBar = FALSE

\* nothing but the part under study is running
SideIdle ==
    /\ act = <<>>
    /\ secret = <<>>
    /\ client = <<>>
    /\ setup = <<>>

AuxIdle ==
    /\ runs = <<>>
    /\ frames = <<>>
    /\ SideIdle

ExtractIdle ==
    /\ rawText = <<>>
    /\ sectionNumber = 1
    /\ extracted = <<>>
    /\ xpc = "idle"

Init ==
    /\ rawAiResponse \in RawResponses
    /\ args \in Arguments
    /\ pc = "loop"
    /\ i = 1
    /\ sectionsContent = <<>>
    /\ retryCount = 0
    /\ reResponse = NoResponse
    /\ apiCalls = ZeroPerSection
    /\ warnings = ZeroPerSection
    /\ delays = <<>>
    /\ finalMarkdown = <<>>
    /\ metadata = NoMetadata
    /\ inFlight = 0
    /\ uiCalls = <<>>
    /\ clockDate = args.today
    /\ cancelled = FALSE
    /\ ExtractIdle
    /\ CommandIdle
    /\ AuxIdle

\* line 50: !sectionContent.trim()
IsMissingAlways(sectionContent) == TRUE

IsMissing(sectionContent) == Trim(sectionContent) = <<>>

\* line 156: let retryCount = 0, a local of each call; `previous` is the
\* value the last call left behind
RetryCountKept(previous) == previous

RetryCountAtEntry(previous) == 0

\* lines 177-180: the section is extracted from the repair response
ReExtractWholeResponse(r, n) == r.text

ReExtract(r, n) == ExtractSectionContent(r.text, n)

\* line 197: the delay of setTimeout, given the incremented retryCount
BackoffDelayOffByOne(count) == BackoffBaseMs * (count + 1)

BackoffDelay(count) == BackoffBaseMs * count

\* lines 200-202: showWarning naming the section
WarnNobody(shown, n) == shown

ShowWarning(shown, n) == [shown EXCEPT ![n] = @ + 1]

\* line 65: sectionsContent[i] = sectionContent.trim(), then i++
StoreSection(sectionContent) ==
    /\ sectionsContent' = Append(sectionsContent, Trim(sectionContent))
    /\ i' = i + 1
    /\ pc' = "loop"

\* lines 48-50 and 65, or entry into _reRequestMissingSection (line 156)
ExtractStep ==
    /\ pc = "loop"
    /\ i <= totalSections
    /\ LET sectionContent == ExtractSectionContent(rawAiResponse, i)
       IN IF ~IsMissing(sectionContent)
          THEN /\ StoreSection(sectionContent)
               /\ UNCHANGED <<retryCount, delays>>
          ELSE /\ pc' = "reRequest"
               /\ retryCount' = RetryCountAtEntry(retryCount)
               /\ delays' = <<>>
               /\ UNCHANGED <<i, sectionsContent>>
    /\ reResponse' = NoResponse
    /\ uiCalls' = <<>>
    /\ UNCHANGED <<rawAiResponse, args, apiCalls, warnings, finalMarkdown, metadata,
                   inFlight, extractVars, envVars, cmdVars, auxVars>>

\* the call of line 173 without its await: the loop goes on to the next
\* attempt while the call is still running
ReRequestSendNoAwait ==
    /\ pc = "reRequest"
    /\ retryCount < MAX_RETRY_ATTEMPTS
    /\ apiCalls' = [apiCalls EXCEPT ![i] = @ + 1]
    /\ inFlight' = inFlight + 1
    /\ retryCount' = retryCount + 1
    /\ pc' = "reRequest"
    /\ reResponse' = NoResponse
    /\ uiCalls' = <<>>
    /\ UNCHANGED <<rawAiResponse, args, i, sectionsContent, warnings,
                   delays, finalMarkdown, metadata, extractVars, envVars, cmdVars, auxVars>>

\* lines 157-175: the loop condition holds, the repair prompt is sent
ReRequestSend ==
    /\ pc = "reRequest"
    /\ retryCount < MAX_RETRY_ATTEMPTS
    /\ apiCalls' = [apiCalls EXCEPT ![i] = @ + 1]
    /\ inFlight' = inFlight + 1
    /\ pc' = "awaitResponse"
    /\ reResponse' = NoResponse
    /\ uiCalls' = <<>>
    /\ UNCHANGED <<rawAiResponse, args, i, sectionsContent, retryCount, warnings,
                   delays, finalMarkdown, metadata, extractVars, envVars, cmdVars, auxVars>>

\* lines 173-197: the call resolves; the section is returned, or the counter
\* is incremented and the timer set
ReRequestReceive ==
    /\ pc = "awaitResponse"
    /\ inFlight' = inFlight - 1
    /\ \E r \in RepairOutcomes(i) :
         /\ reResponse' = r
         /\ uiCalls' \in ClientUi(r)
         /\ LET reExtractedContent == ReExtract(r, i)
            IN IF Truthy(r) /\ Trim(reExtractedContent) # <<>>
               THEN /\ StoreSection(reExtractedContent)
                    /\ UNCHANGED <<retryCount, delays>>
               ELSE /\ retryCount' = retryCount + 1
                    /\ delays' = Append(delays, BackoffDelay(retryCount + 1))
                    /\ pc' = "backoff"
                    /\ UNCHANGED <<i, sectionsContent>>
    /\ UNCHANGED <<rawAiResponse, args, apiCalls, warnings, finalMarkdown, metadata,
                   extractVars, envVars, cmdVars, auxVars>>

\* line 197: the timer fires, back to the loop condition
BackoffElapsed ==
    /\ pc = "backoff"
    /\ pc' = "reRequest"
    /\ reResponse' = NoResponse
    /\ uiCalls' = <<>>
    /\ UNCHANGED <<rawAiResponse, args, i, sectionsContent, retryCount, apiCalls,
                   warnings, delays, finalMarkdown, metadata, inFlight, extractVars,
                   envVars, cmdVars, auxVars>>

\* lines 200-207 and 65: the loop condition fails
Exhausted ==
    /\ pc = "reRequest"
    /\ retryCount >= MAX_RETRY_ATTEMPTS
    /\ warnings' = ShowWarning(warnings, i)
    /\ uiCalls' = <<"showWarning">>
    /\ StoreSection(Placeholder(i))
    /\ reResponse' = NoResponse
    /\ UNCHANGED <<rawAiResponse, args, retryCount, apiCalls, delays, finalMarkdown,
                   metadata, inFlight, extractVars, envVars, cmdVars, auxVars>>

\* lines 68-93
Assemble ==
    /\ pc = "loop"
    /\ i > totalSections
    /\ metadata' = Metadata([args EXCEPT !.today = clockDate])
    /\ finalMarkdown' = GenerateMarkdownTemplate(metadata', sectionsContent)
    /\ pc' = "done"
    /\ reResponse' = NoResponse
    /\ uiCalls' = <<>>
    /\ UNCHANGED <<rawAiResponse, args, i, sectionsContent, retryCount, apiCalls,
                   warnings, delays, inFlight, extractVars, envVars, cmdVars, auxVars>>

Next ==
    \/ ExtractStep
    \/ ReRequestSend
    \/ ReRequestReceive
    \/ BackoffElapsed
    \/ Exhausted
    \/ Assemble

Spec == Init /\ [][Next]_vars

----------------------------------------------------------------------------
(* _extractSectionContent on its own: every text of the shapes below *)

\* most lines between a pair of markers
MaxLines == 2

\* the lines a section's text is made of
ContentLines(n) ==
    { <<>>,
      <<"text">>,
      <<" ", "text", " ">>,
      <<"#", "#", "#", " ", SectionDigit[n], ".", " ", "title">>,
      <<"#", SectionDigit[n], ".">>,
      <<"#", "#", " ", SectionDigit[OtherSection(n)], ".", " ", "other">>,
      <<SectionDigit[n], ".", " ", "item">> }

RECURSIVE JoinLines(_)
JoinLines(lines) ==
    IF Len(lines) = 0 THEN <<>>
    ELSE IF Len(lines) = 1 THEN lines[1]
    ELSE lines[1] \o <<"\n">> \o JoinLines(Tail(lines))

Contents(n) ==
    {JoinLines(lines) : lines \in UNION {[1..m -> ContentLines(n)] : m \in 0..MaxLines}}

\* where the markers of section n stand around the text c
Shapes == {"none", "startOnly", "endOnly", "endBeforeStart", "pair", "pairInText",
           "endThenPair", "twoPairs", "twoStarts", "twoEnds"}

Shaped(shape, c, n) ==
    LET S == <<StartMarker(n)>>
        E == <<EndMarker(n)>>
    IN CASE shape = "none" -> c
         [] shape = "startOnly" -> S \o c
         [] shape = "endOnly" -> c \o E
         [] shape = "endBeforeStart" -> E \o c \o S \o <<"later">>
         [] shape = "pair" -> S \o c \o E
         [] shape = "pairInText" -> <<"intro", "\n">> \o S \o c \o E \o <<"\n", "outro">>
         [] shape = "endThenPair" -> E \o S \o c \o E
         [] shape = "twoPairs" -> S \o c \o E \o <<"\n">> \o S \o <<"later">> \o E
         [] shape = "twoStarts" -> S \o c \o S \o <<"later">> \o E
         [] shape = "twoEnds" -> S \o c \o E \o <<"later">> \o E

ExtractInputs(n) == {Shaped(shape, c, n) : shape \in Shapes, c \in Contents(n)}

PipelineIdle ==
    /\ rawAiResponse = <<>>
    /\ args = [language |-> "python", platform |-> "Unknown", problemId |-> "Unknown",
               title |-> "Unknown", today |-> "2025-07-20"]
    /\ pc = "idle"
    /\ i = 1
    /\ sectionsContent = <<>>
    /\ retryCount = 0
    /\ reResponse = NoResponse
    /\ apiCalls = ZeroPerSection
    /\ warnings = ZeroPerSection
    /\ delays = <<>>
    /\ finalMarkdown = <<>>
    /\ metadata = NoMetadata
    /\ inFlight = 0
    /\ uiCalls = <<>>
    /\ clockDate = "2025-07-20"
    /\ cancelled = FALSE

InitExtract ==
    /\ sectionNumber \in Sections
    /\ rawText \in ExtractInputs(sectionNumber)
    /\ extracted = <<>>
    /\ xpc = "call"
    /\ PipelineIdle
    /\ CommandIdle
    /\ AuxIdle

\* lines 102-134
ExtractCall ==
    /\ xpc = "call"
    /\ extracted' = ExtractSectionContent(rawText, sectionNumber)
    /\ xpc' = "returned"
    /\ UNCHANGED <<rawText, sectionNumber, pipeVars, envVars, cmdVars, auxVars>>

NextExtract == ExtractCall

SpecExtract == InitExtract /\ [][NextExtract]_vars

----------------------------------------------------------------------------
(* A run of processAnalysisResult in its surroundings: the clock goes on     *)
(* while the run is suspended, and the caller may lose interest in the       *)
(* result at any time                                                        *)

NextDay(d) == IF d = "2025-07-20" THEN "2025-07-21" ELSE "2025-07-22"

\* midnight passes while the run waits for a response or for the timer
MidnightPasses ==
    /\ pc \in {"awaitResponse", "backoff"}
    /\ clockDate = args.today
    /\ clockDate' = NextDay(clockDate)
    /\ UNCHANGED <<pipeVars, extractVars, cancelled, cmdVars, auxVars>>

\* the caller signals cancellation (the user closes the document) while the
\* run is under way
Cancel ==
    /\ pc \in {"loop", "reRequest", "awaitResponse", "backoff"}
    /\ ~cancelled
    /\ cancelled' = TRUE
    /\ UNCHANGED <<pipeVars, extractVars, clockDate, cmdVars, auxVars>>

NextEnv ==
    \/ Next
    \/ MidnightPasses
    \/ Cancel

SpecEnv == Init /\ [][NextEnv]_vars

----------------------------------------------------------------------------
(* AnalyzeCodeCommand.run (src/commands/analyzeCode.ts), one step per        *)
(* stretch of code between two awaits                                        *)

\* document.getText(): empty, white space only, or code
Codes == {<<>>, <<" ", "\n">>, <<"def", " ", "f", "\n">>}

\* document.languageId
Languages == {"python", "cpp"}

\* what parseFileName (lines 24-44) makes of the file name
FileInfos ==
    { [platform |-> "Unknown", problemId |-> "Unknown", title |-> "Unknown"],
      [platform |-> "BOJ", problemId |-> "1234", title |-> "K"] }

\* templateAvailable: src/prompts/analyze_code_prompt.md can be read
CommandInputs ==
    [initialized : BOOLEAN, hasEditor : BOOLEAN, code : Codes, hasWorkspace : BOOLEAN,
     templateAvailable : BOOLEAN, language : Languages, fileInfo : FileInfos]

\* the prompt without the code block of lines 268-272
GeneratePromptWithoutCode(code, language, platform, problemId, title, analyzedAt) ==
    <<"---", "\n", "platform: ", platform, "\n", "problem_id: ", problemId, "\n",
      "title: ", title, "\n", "language: ", language, "\n",
      "analyzed_at: ", analyzedAt, "\n", "---", "\n", "\n",
      "You are an expert software engineer", "\n">>

\* lines 200-274: the prompt is a template literal of the source; no file is
\* read.  The seven numbered instruction blocks are one token.
GeneratePrompt(code, language, platform, problemId, title, analyzedAt) ==
    <<"---", "\n", "platform: ", platform, "\n", "problem_id: ", problemId, "\n",
      "title: ", title, "\n", "language: ", language, "\n",
      "analyzed_at: ", analyzedAt, "\n", "---", "\n", "\n",
      "You are an expert software engineer", "\n",
      "Analyze the following ", language, " code", "\n", "\n",
      "## ", IF platform # "Unknown" THEN platform ELSE "provided", " ",
      IF problemId # "Unknown" THEN problemId ELSE "", " ", language,
      " code analysis", "\n", "\n",
      "### 1. to ### 7. instructions", "\n", "\n", "---", "\n", "\n",
      "Here is the code to analyze:", "\n", "\n", "code-fence", language, "\n">>
    \o code \o <<"\n", "code-fence", "\n">>

\* line 87 without trim()
CodeIsEmptyUntrimmed(code) == code = <<>>

\* line 87: !code.trim()
CodeIsEmpty(code) == Trim(code) = <<>>

\* line 145 taken whatever writeFile returned
WriteAssumed(fileWritten) == TRUE

\* line 145: if (fileWritten)
WriteSucceeded(fileWritten) == fileWritten

\* what generateContent may resolve to for the main prompt
AnalysisOutcomes ==
    {NoResponse, TextResponse(<<>>)} \cup {TextResponse(raw) : raw \in RawResponses}

InitCommand ==
    /\ cmdInput \in CommandInputs
    /\ cmdPc = "initialize"
    /\ analysisResult = NoResponse
    /\ cmdCalls = 0
    /\ writtenFile = NoFile
    /\ previewed = FALSE
    /\ notices = <<>>
    /\ statusBar = FALSE
    /\ sentPrompt = <<>>
    /\ PipelineIdle
    /\ ExtractIdle
    /\ AuxIdle

\* the finally block of lines 186-189
CmdFinally ==
    /\ statusBar' = FALSE
    /\ cmdPc' = "finished"

\* lines 57-112: initialize() has resolved; the guards, then the status bar
\* message, the prompt and the call of generateContent
CmdInitialized ==
    /\ cmdPc = "initialize"
    /\ IF ~cmdInput.initialized
       THEN /\ notices' = notices \o <<"showWarning: API key needed",
                                       "showWarning: client not initialized">>
            /\ cmdPc' = "finished"
            /\ UNCHANGED <<statusBar, cmdCalls, sentPrompt>>
       ELSE IF ~cmdInput.hasEditor
       THEN /\ notices' = Append(notices, "showWarning: no active editor")
            /\ cmdPc' = "finished"
            /\ UNCHANGED <<statusBar, cmdCalls, sentPrompt>>
       ELSE IF CodeIsEmpty(cmdInput.code)
       THEN /\ notices' = Append(notices, "showWarning: no code")
            /\ cmdPc' = "finished"
            /\ UNCHANGED <<statusBar, cmdCalls, sentPrompt>>
       ELSE /\ statusBar' = TRUE
            /\ sentPrompt' = GeneratePrompt(cmdInput.code, cmdInput.language,
                                            cmdInput.fileInfo.platform,
                                            cmdInput.fileInfo.problemId,
                                            cmdInput.fileInfo.title, clockDate)
            /\ cmdCalls' = cmdCalls + 1
            /\ cmdPc' = "awaitAnalysis"
            /\ UNCHANGED notices
    /\ UNCHANGED <<cmdInput, analysisResult, writtenFile, previewed, pipeVars,
                   extractVars, envVars, auxVars>>

\* the same with `if (analysisResult)` of line 114 always taken
TruthyAlways(r) == TRUE

\* line 114: if (analysisResult)
HasAnalysis(r) == Truthy(r)

\* lines 111-141 and 169-173: generateContent has resolved (with its own
\* notifications and its finally block); the result goes to the file as it is
CmdAnalysisReturns ==
    /\ cmdPc = "awaitAnalysis"
    /\ \E r \in AnalysisOutcomes :
         /\ analysisResult' = r
         /\ IF ~HasAnalysis(r)
            THEN /\ notices' = notices \o (IF r.defined THEN <<>>
                                            ELSE <<"showError: client", "showError: client">>)
                 /\ CmdFinally
            ELSE IF ~cmdInput.hasWorkspace
            THEN /\ notices' = notices \o <<"showWarning: no workspace folder",
                                            "showError: cannot save">>
                 /\ CmdFinally
            ELSE /\ statusBar' = FALSE
                 /\ cmdPc' = "awaitWrite"
                 /\ UNCHANGED notices
    /\ UNCHANGED <<cmdInput, cmdCalls, writtenFile, previewed, sentPrompt, pipeVars,
                   extractVars, envVars, auxVars>>

\* lines 141-168: writeFile has resolved
CmdWriteReturns ==
    /\ cmdPc = "awaitWrite"
    /\ \E fileWritten \in BOOLEAN :
         /\ writtenFile' = IF fileWritten THEN FileWith(analysisResult.text)
                            ELSE writtenFile
         /\ IF WriteSucceeded(fileWritten)
            THEN /\ notices' = notices \o (IF fileWritten
                                            THEN <<"showInformation: file written">>
                                            ELSE <<"showError: write failed">>)
                                       \o <<"showInformation: note saved">>
                 /\ cmdPc' = "awaitPreview"
                 /\ UNCHANGED statusBar
            ELSE /\ notices' = notices \o <<"showError: write failed",
                                            "showError: save failed">>
                 /\ CmdFinally
    /\ UNCHANGED <<cmdInput, analysisResult, cmdCalls, previewed, sentPrompt, pipeVars,
                   extractVars, envVars, auxVars>>

\* lines 154-160 and 174-189: the document is opened and previewed, or one of
\* the two calls throws
CmdPreviewReturns ==
    /\ cmdPc = "awaitPreview"
    /\ \E opened \in BOOLEAN :
         IF opened
         THEN previewed' = TRUE /\ UNCHANGED notices
         ELSE notices' = Append(notices, "showError: analysis failed")
              /\ UNCHANGED previewed
    /\ CmdFinally
    /\ UNCHANGED <<cmdInput, analysisResult, cmdCalls, writtenFile, sentPrompt,
                   pipeVars, extractVars, envVars, auxVars>>

NextCommand ==
    \/ CmdInitialized
    \/ CmdAnalysisReturns
    \/ CmdWriteReturns
    \/ CmdPreviewReturns

SpecCommand == InitCommand /\ [][NextCommand]_vars

\* the program's two entry points: the command, and the post-processor
InitProgram == Init \/ InitCommand

NextProgram ==
    \/ Next
    \/ NextCommand

SpecProgram == InitProgram /\ [][NextProgram]_vars

----------------------------------------------------------------------------
(* Two runs of processAnalysisResult under way at once: a second generation  *)
(* request is made while the first is suspended.  Every call has its own     *)
(* activation record for the locals of lines 45 and 156.  The steps of the   *)
(* two runs interleave freely, which includes every interleaving at the      *)
(* awaits of lines 173 and 197.                                              *)

RunIds == {1, 2}

\* one record of locals for all calls, as a static field would be
FrameShared(k) == 1

\* the activation record that holds the locals of run k
FrameOf(k) == k

\* sectionsContent[k] = v on the object of line 45
SetEntry(sc, k, v) == [n \in DOMAIN sc \cup {k} |-> IF n = k THEN v ELSE sc[n]]

\* the raw responses of the two runs: one lacks section 3, the other holds
\* only white space for section 5
TwoRunResponses ==
    { RawOf([n \in Sections |-> IF n = 3 THEN "absent" ELSE "full"], 1),
      RawOf([n \in Sections |-> IF n = 5 THEN "blank" ELSE "full"], 1) }

RunStart(w, a) ==
    [raw |-> w, args |-> a, pc |-> "loop", i |-> 1, history |-> <<>>,
     overlapped |-> FALSE, document |-> <<>>]

\* the two requests are made for different files
RunArguments(k) ==
    IF k = 1
    THEN [language |-> "python", platform |-> "Unknown", problemId |-> "Unknown",
          title |-> "Unknown", today |-> "2025-07-20"]
    ELSE [language |-> "python", platform |-> "BOJ", problemId |-> "1234",
          title |-> "K", today |-> "2025-07-20"]

\* what the collaborator may answer to the repair prompt of section n: no
\* response, another section, or the section asked for
TwoRunOutcomes(n) ==
    { NoResponse,
      TextResponse(<<StartMarker(OtherSection(n)), Body(OtherSection(n)),
                     EndMarker(OtherSection(n))>>),
      TextResponse(<<StartMarker(n), "\n">> \o Repaired(n) \o <<"\n", EndMarker(n)>>) }

InitTwoRuns ==
    /\ \E w \in [RunIds -> TwoRunResponses] :
         runs = [k \in RunIds |-> RunStart(w[k], RunArguments(k))]
    /\ frames = [f \in RunIds |-> [sectionsContent |-> <<>>, retryCount |-> 0]]
    /\ PipelineIdle
    /\ ExtractIdle
    /\ CommandIdle
    /\ SideIdle

\* the other run is suspended in the middle of its work
OtherSuspended(k) ==
    \E j \in RunIds \ {k} : runs[j].pc \in {"awaitResponse", "backoff"}

\* line 65 in run k
RunStore(k, sectionContent) ==
    /\ frames' = [frames EXCEPT ![FrameOf(k)].sectionsContent =
                                   SetEntry(@, runs[k].i, Trim(sectionContent))]
    /\ runs' = [runs EXCEPT ![k].i = @ + 1, ![k].pc = "loop"]

\* lines 48-50 and 65, or entry into _reRequestMissingSection (line 156)
RunExtractStep(k) ==
    /\ runs[k].pc = "loop"
    /\ runs[k].i <= totalSections
    /\ LET sectionContent == ExtractSectionContent(runs[k].raw, runs[k].i)
       IN IF ~IsMissing(sectionContent)
          THEN RunStore(k, sectionContent)
          ELSE /\ frames' = [frames EXCEPT ![FrameOf(k)].retryCount = 0]
               /\ runs' = [runs EXCEPT ![k].pc = "reRequest"]
    /\ UNCHANGED <<pipeVars, extractVars, envVars, cmdVars, sideVars>>

\* lines 157-175
RunReRequestSend(k) ==
    /\ runs[k].pc = "reRequest"
    /\ frames[FrameOf(k)].retryCount < MAX_RETRY_ATTEMPTS
    /\ runs' = [runs EXCEPT ![k].pc = "awaitResponse"]
    /\ UNCHANGED <<frames, pipeVars, extractVars, envVars, cmdVars, sideVars>>

\* lines 173-197
RunReRequestReceive(k) ==
    /\ runs[k].pc = "awaitResponse"
    /\ \E r \in TwoRunOutcomes(runs[k].i) :
         LET reExtractedContent == ReExtract(r, runs[k].i)
             resumed == [runs[k] EXCEPT !.history = Append(@, r),
                                        !.overlapped = @ \/ OtherSuspended(k)]
         IN IF Truthy(r) /\ Trim(reExtractedContent) # <<>>
            THEN /\ frames' = [frames EXCEPT ![FrameOf(k)].sectionsContent =
                                   SetEntry(@, runs[k].i, Trim(reExtractedContent))]
                 /\ runs' = [runs EXCEPT ![k] = [resumed EXCEPT !.i = @ + 1,
                                                                !.pc = "loop"]]
            ELSE /\ frames' = [frames EXCEPT ![FrameOf(k)].retryCount = @ + 1]
                 /\ runs' = [runs EXCEPT ![k] = [resumed EXCEPT !.pc = "backoff"]]
    /\ UNCHANGED <<pipeVars, extractVars, envVars, cmdVars, sideVars>>

\* line 197: the timer fires
RunBackoffElapsed(k) ==
    /\ runs[k].pc = "backoff"
    /\ runs' = [runs EXCEPT ![k].pc = "reRequest"]
    /\ UNCHANGED <<frames, pipeVars, extractVars, envVars, cmdVars, sideVars>>

\* lines 200-207 and 65
RunExhausted(k) ==
    /\ runs[k].pc = "reRequest"
    /\ frames[FrameOf(k)].retryCount >= MAX_RETRY_ATTEMPTS
    /\ RunStore(k, Placeholder(runs[k].i))
    /\ UNCHANGED <<pipeVars, extractVars, envVars, cmdVars, sideVars>>

\* lines 68-93
RunAssemble(k) ==
    /\ runs[k].pc = "loop"
    /\ runs[k].i > totalSections
    /\ runs' = [runs EXCEPT
                  ![k].document = GenerateMarkdownTemplate(
                                      Metadata(runs[k].args),
                                      frames[FrameOf(k)].sectionsContent),
                  ![k].pc = "done"]
    /\ UNCHANGED <<frames, pipeVars, extractVars, envVars, cmdVars, sideVars>>

NextTwoRuns ==
    \E k \in RunIds :
        \/ RunExtractStep(k)
        \/ RunReRequestSend(k)
        \/ RunReRequestReceive(k)
        \/ RunBackoffElapsed(k)
        \/ RunExhausted(k)
        \/ RunAssemble(k)

SpecTwoRuns == InitTwoRuns /\ [][NextTwoRuns]_vars

----------------------------------------------------------------------------
(* processAnalysisResult on a response that holds no section at all, with    *)
(* every await resolving in the end: the event loop runs a continuation     *)
(* once its promise is settled, and the timer of line 197 fires             *)

\* a response without any delimiter marker
NothingUsable == RawOf([n \in Sections |-> "absent"], 1)

\* that one, a complete one, and one with white space for section 4
TerminateResponses ==
    { NothingUsable,
      RawOf([n \in Sections |-> "full"], 1),
      RawOf([n \in Sections |-> IF n = 4 THEN "blank" ELSE "full"], 1) }

InitTerminate ==
    /\ rawAiResponse \in TerminateResponses
    /\ args \in {a \in Arguments : a.platform = "BOJ"}
    /\ pc = "loop"
    /\ i = 1
    /\ sectionsContent = <<>>
    /\ retryCount = 0
    /\ reResponse = NoResponse
    /\ apiCalls = ZeroPerSection
    /\ warnings = ZeroPerSection
    /\ delays = <<>>
    /\ finalMarkdown = <<>>
    /\ metadata = NoMetadata
    /\ inFlight = 0
    /\ uiCalls = <<>>
    /\ clockDate = args.today
    /\ cancelled = FALSE
    /\ ExtractIdle
    /\ CommandIdle
    /\ AuxIdle

SpecTerminate == InitTerminate /\ [][Next]_vars /\ WF_vars(Next)

----------------------------------------------------------------------------
(* activate() and showKeybindingSetupGuide (src/extension.ts), one step per  *)
(* stretch of code between two awaits.  globalState outlives an activation.  *)

coreVars == <<pipeVars, extractVars, envVars, cmdVars, runs, frames>>

\* the analysis command and the post-processor are not running
CoreIdle ==
    /\ PipelineIdle
    /\ ExtractIdle
    /\ CommandIdle
    /\ runs = <<>>
    /\ frames = <<>>

\* most activations of the extension in one behaviour
MaxActivations == 3

\* the answers to the warning of lines 116-121
Selections == {"enter now", "open settings", "dismissed"}

InitActivate ==
    /\ act \in [pc : {"getKey"},
                hasKey : BOOLEAN,           \* a key is in the secret storage
                hasSeen : BOOLEAN,          \* globalState aiNote.hasSeenKeybindingGuide
                seenAtStart : {FALSE},      \* its value when this activation began
                shown : {0},                \* guide messages displayed in this activation
                pending : {0},              \* guide messages waiting for an answer
                selection : {"none"},       \* the answer to the warning of line 116
                keybindingsOpened : {FALSE},
                activations : {1}]
    /\ act.seenAtStart = act.hasSeen
    /\ secret = <<>>
    /\ client = <<>>
    /\ setup = <<>>
    /\ CoreIdle

\* lines 146-155: one call of showKeybindingSetupGuide, up to its await
GuideInvoked(a) ==
    IF a.hasSeen THEN a
    ELSE [a EXCEPT !.shown = @ + 1, !.pending = @ + 1]

\* lines 114-116 and 134-143: getGeminiApiKey has resolved
ActKeyRead ==
    /\ act # <<>>
    /\ act.pc = "getKey"
    /\ act' = IF ~act.hasKey THEN [act EXCEPT !.pc = "warning"]
              ELSE IF ~act.hasSeen THEN [GuideInvoked(act) EXCEPT !.pc = "settled"]
              ELSE [act EXCEPT !.pc = "settled"]
    /\ UNCHANGED <<coreVars, secret, client, setup>>

\* lines 121-133: the warning is answered
ActWarningAnswered ==
    /\ act # <<>>
    /\ act.pc = "warning"
    /\ \E selection \in Selections :
         act' = IF selection = "enter now"
                THEN [act EXCEPT !.pc = "prompt", !.selection = selection]
                ELSE [GuideInvoked([act EXCEPT !.selection = selection])
                        EXCEPT !.pc = "settled"]
    /\ UNCHANGED <<coreVars, secret, client, setup>>

\* lines 123-124 and 132: promptForGeminiApiKey has resolved; the guide is
\* called without await and then called again
ActPromptReturns ==
    /\ act # <<>>
    /\ act.pc = "prompt"
    /\ \E entered \in BOOLEAN :
         act' = [GuideInvoked(GuideInvoked([act EXCEPT !.hasKey = @ \/ entered]))
                   EXCEPT !.pc = "settled"]
    /\ UNCHANGED <<coreVars, secret, client, setup>>

\* lines 155-163: a guide message is answered or dismissed
GuideAnswered ==
    /\ act # <<>>
    /\ act.pending > 0
    /\ \E learnMore \in BOOLEAN :
         act' = [act EXCEPT !.pending = @ - 1,
                            !.keybindingsOpened = @ \/ learnMore,
                            !.hasSeen = TRUE]
    /\ UNCHANGED <<coreVars, secret, client, setup>>

\* the window is reloaded: activate() runs again, the open messages are gone
Reactivate ==
    /\ act # <<>>
    /\ act.pc = "settled"
    /\ act.activations < MaxActivations
    /\ act' = [act EXCEPT !.pc = "getKey", !.seenAtStart = act.hasSeen, !.shown = 0,
                          !.pending = 0, !.selection = "none",
                          !.keybindingsOpened = FALSE, !.activations = @ + 1]
    /\ UNCHANGED <<coreVars, secret, client, setup>>

\* the commands vscode-ai-note.setGeminiApiKey and deleteGeminiApiKey, run by
\* the user once activate() has registered them
KeyCommand ==
    /\ act # <<>>
    /\ act.pc = "settled"
    /\ \E stored \in BOOLEAN :
         /\ stored # act.hasKey
         /\ act' = [act EXCEPT !.hasKey = stored]
    /\ UNCHANGED <<coreVars, secret, client, setup>>

NextActivate ==
    \/ ActKeyRead
    \/ ActWarningAnswered
    \/ ActPromptReturns
    \/ GuideAnswered
    \/ KeyCommand
    \/ Reactivate

SpecActivate == InitActivate /\ [][NextActivate]_vars

----------------------------------------------------------------------------
(* GeminiApiClient.generateContent (src/core/geminiApiClient.ts), one call   *)

\* the messages of the errors the provider call is known to throw, and one
\* that matches none of the three patterns of lines 176-187
ErrorMessages ==
    {"API key not valid", "User location is not supported", "quota exceeded",
     "fetch failed"}

\* what `await model.generateContent(...)` and response.text() may do
ProviderOutcomes ==
    {[kind |-> "text", text |-> t, message |-> ""] : t \in {<<>>} \cup RawResponses}
    \cup {[kind |-> k, text |-> <<>>, message |-> ""] :
            k \in {"no response", "no text, candidates", "no text"}}
    \cup {[kind |-> k, text |-> <<>>, message |-> m] :
            k \in {"call throws", "text() throws"}, m \in ErrorMessages}
    \cup {[kind |-> "call throws a value without message", text |-> <<>>,
           message |-> ""]}

NoOutcome == [kind |-> "none", text |-> <<>>, message |-> ""]

InitClient ==
    /\ client \in [genAI : BOOLEAN,          \* this.genAI is set
                   pc : {"call"},
                   outcome : {NoOutcome},    \* what the provider did
                   settled : {"pending"},    \* "resolved" or "rejected" in the end
                   result : {NoResponse},    \* the value the promise resolved to
                   providerCalls : {0},
                   errors : {<<>>},          \* the showError calls, in order
                   hidden : {FALSE}]         \* hideStatusBarMessage was called
    /\ act = <<>>
    /\ secret = <<>>
    /\ setup = <<>>
    /\ CoreIdle

\* no catch block: what is thrown leaves the function
Propagate(c, e) == [c EXCEPT !.settled = "rejected", !.hidden = TRUE]

\* lines 168-213: the catch block and the finally block.  error.message is
\* read at line 172 and .includes is called on it at line 176.
CatchBlock(c, e) ==
    IF e.kind = "call throws a value without message"
    THEN [c EXCEPT !.settled = "rejected", !.hidden = TRUE]
    ELSE [c EXCEPT !.settled = "resolved", !.result = NoResponse,
                   !.errors = <<"showError: " \o
                                  (IF e.message = "fetch failed" THEN "call failed"
                                   ELSE e.message),
                                "showError: log message">>,
                   !.hidden = TRUE]

\* lines 119-167 and 211-213
OnResult(c, o) ==
    IF o.kind = "text"
    THEN [c EXCEPT !.settled = "resolved", !.result = TextResponse(o.text),
                   !.hidden = TRUE]
    ELSE [c EXCEPT !.settled = "resolved", !.result = NoResponse,
                   !.errors = <<"showError: " \o o.kind, "showError: no text response">>,
                   !.hidden = TRUE]

\* lines 60-113: the check of this.genAI, then the provider call
ClientCall ==
    /\ client # <<>>
    /\ client.pc = "call"
    /\ client' = IF ~client.genAI
                 THEN [client EXCEPT !.pc = "settled", !.settled = "resolved",
                                     !.result = NoResponse,
                                     !.errors = <<"showError: not initialized">>]
                 ELSE [client EXCEPT !.pc = "awaitProvider", !.providerCalls = @ + 1]
    /\ UNCHANGED <<coreVars, act, secret, setup>>

\* lines 113-213: the provider call settles
ClientProviderSettles ==
    /\ client # <<>>
    /\ client.pc = "awaitProvider"
    /\ \E o \in ProviderOutcomes :
         LET c == [client EXCEPT !.pc = "settled", !.outcome = o]
         IN client' = IF o.kind \in {"call throws", "text() throws",
                                     "call throws a value without message"}
                      THEN CatchBlock(c, o)
                      ELSE OnResult(c, o)
    /\ UNCHANGED <<coreVars, act, secret, setup>>

NextClient ==
    \/ ClientCall
    \/ ClientProviderSettles

SpecClient == InitClient /\ [][NextClient]_vars

----------------------------------------------------------------------------
(* SecretManager (src/core/secretManager.ts) and the secret storage: any     *)
(* sequence of its operations, a prompt staying open while others run       *)

\* what may be passed as a key or typed into the input box
KeyTexts == {<<>>, <<" ">>, <<" ", "\n">>, <<"A">>, <<" ", "B", " ">>, <<"A", "B">>}

NoKey == [present |-> FALSE, value |-> <<>>]
Key(k) == [present |-> TRUE, value |-> k]

\* showInputBox resolves to undefined when the box is cancelled
CancelledInput == [given |-> FALSE, value |-> <<>>]
Typed(k) == [given |-> TRUE, value |-> k]

InitSecret ==
    /\ secret \in [stored : {NoKey, Key(<<"A">>)},   \* the secret storage entry
                   prompt : {"idle"},                 \* "open": showInputBox is open
                   currentKey : {NoKey},              \* currentKey of the open prompt
                   lastOp : {"none"},
                   lastArg : {CancelledInput},        \* the key passed or typed
                   message : {"none"}]                \* the last message shown
    /\ act = <<>>
    /\ client = <<>>
    /\ setup = <<>>
    /\ CoreIdle

\* secrets.store without lines 18-21
StoreUnchecked(s, apiKey) == [s EXCEPT !.stored = Key(apiKey), !.message = "stored"]

\* lines 17-26
StoreGeminiApiKey(s, apiKey) ==
    IF apiKey = <<>> THEN [s EXCEPT !.message = "key must not be empty"]
    ELSE [s EXCEPT !.stored = Key(apiKey), !.message = "stored"]

\* storeGeminiApiKey called with apiKey
StoreCalled ==
    /\ secret # <<>>
    /\ \E apiKey \in KeyTexts :
         secret' = StoreGeminiApiKey([secret EXCEPT !.lastOp = "store",
                                                    !.lastArg = Typed(apiKey)], apiKey)
    /\ UNCHANGED <<coreVars, act, client, setup>>

\* lines 39-42
DeleteCalled ==
    /\ secret # <<>>
    /\ secret' = [secret EXCEPT !.stored = NoKey, !.message = "deleted",
                                !.lastOp = "delete", !.lastArg = CancelledInput]
    /\ UNCHANGED <<coreVars, act, client, setup>>

\* lines 47-55: promptForGeminiApiKey reads the current key and opens the box
PromptOpened ==
    /\ secret # <<>>
    /\ secret.prompt = "idle"
    /\ secret' = [secret EXCEPT !.prompt = "open", !.currentKey = secret.stored,
                                !.lastOp = "open prompt", !.lastArg = CancelledInput]
    /\ UNCHANGED <<coreVars, act, client, setup>>

\* lines 57-64: the box is closed, with text or cancelled
PromptAnswered ==
    /\ secret # <<>>
    /\ secret.prompt = "open"
    /\ \E input \in {CancelledInput} \cup {Typed(k) : k \in KeyTexts} :
         LET s == [secret EXCEPT !.prompt = "idle", !.currentKey = NoKey,
                                 !.lastOp = "prompt", !.lastArg = input]
         IN secret' = IF input.given THEN StoreGeminiApiKey(s, Trim(input.value))
                      ELSE [s EXCEPT !.message = "input cancelled"]
    /\ UNCHANGED <<coreVars, act, client, setup>>

NextSecret ==
    \/ StoreCalled
    \/ DeleteCalled
    \/ PromptOpened
    \/ PromptAnswered

SpecSecret == InitSecret /\ [][NextSecret]_vars

----------------------------------------------------------------------------
(* SetupProblemCommand.run (src/commands/setupProblem.ts), one step per      *)
(* stretch of code between two awaits.  "Baekjoon" and "Programmers-kr"     *)
(* stand for the two Korean labels of line 28, which the switch of lines    *)
(* 37-52 repeats letter for letter.                                          *)

\* line 28: the platforms the quick pick offers
OfferedPlatforms == {"Baekjoon", "Programmers-kr", "SWEA"}

\* line 69: the languages the quick pick offers
OfferedLanguages == {"Python", "C", "C++", "JAVA"}

\* a quick pick or input box that was cancelled resolves to undefined
Undefined == "undefined"

\* lines 37-52: the switch over platformDisplayName; "" is the default branch
PlatformCode(platformDisplayName) ==
    CASE platformDisplayName = "Baekjoon" -> "BOJ"
      [] platformDisplayName = "Programmers-kr" -> "Programmers"
      [] platformDisplayName = "SWEA" -> "SWEA"
      [] OTHER -> ""

\* lines 89-111: the switch over language; "" is the default branch
FileExtension(language) ==
    CASE language = "Python" -> "py"
      [] language = "Java" -> "java"
      [] language = "C" -> "c"
      [] language = "C++" -> "cpp"
      [] OTHER -> ""

\* what may be typed as the problem number; <<>> is the empty string
ProblemNumbers == {<<>>, <<"1", "0", "0", "0">>, <<"a", "+", "b">>}

\* lines 81-84: every character outside letters, digits and Hangul becomes _
NormalizedIdentifier(problemNumber) ==
    [k \in DOMAIN problemNumber |->
        IF problemNumber[k] \in {"0", "1", "a", "b"} THEN problemNumber[k] ELSE "_"]

InitSetup ==
    /\ setup \in [hasWorkspace : BOOLEAN,
                  pc : {"start"},
                  platformDisplayName : {Undefined},
                  problemNumber : {<<>>},
                  language : {Undefined},
                  problemFileName : {<<>>},
                  mkdirCalled : {FALSE},
                  dirCreated : {FALSE},
                  fileWritten : {FALSE},
                  notices : {<<>>},
                  statusBar : {FALSE}]
    /\ act = <<>>
    /\ secret = <<>>
    /\ client = <<>>
    /\ CoreIdle

\* a return inside the try block, through the finally block of lines 160-162
SetupReturns(s, notice) ==
    [s EXCEPT !.pc = "finished", !.statusBar = FALSE, !.notices = Append(@, notice)]

\* lines 17-29
SetupStarted ==
    /\ setup # <<>>
    /\ setup.pc = "start"
    /\ setup' = IF ~setup.hasWorkspace
                THEN SetupReturns(setup, "showWarning: no workspace folder")
                ELSE [setup EXCEPT !.pc = "pickPlatform", !.statusBar = TRUE]
    /\ UNCHANGED <<coreVars, act, secret, client>>

\* lines 26-58
PlatformPicked ==
    /\ setup # <<>>
    /\ setup.pc = "pickPlatform"
    /\ \E choice \in OfferedPlatforms \cup {Undefined} :
         LET s == [setup EXCEPT !.platformDisplayName = choice]
         IN setup' = IF choice = Undefined
                     THEN SetupReturns(s, "showWarning: platform cancelled")
                     ELSE IF PlatformCode(choice) = ""
                     THEN SetupReturns(s, "showError: unknown platform")
                     ELSE [s EXCEPT !.pc = "enterNumber"]
    /\ UNCHANGED <<coreVars, act, secret, client>>

\* lines 55-70; the input box resolves to a string or, cancelled, to undefined
NumberEntered ==
    /\ setup # <<>>
    /\ setup.pc = "enterNumber"
    /\ \E cancelled_ \in BOOLEAN, typed \in ProblemNumbers :
         setup' = IF cancelled_ \/ typed = <<>>
                  THEN SetupReturns(setup, "showWarning: number cancelled")
                  ELSE [setup EXCEPT !.pc = "pickLanguage", !.problemNumber = typed]
    /\ UNCHANGED <<coreVars, act, secret, client>>

\* lines 67-133
LanguagePicked ==
    /\ setup # <<>>
    /\ setup.pc = "pickLanguage"
    /\ \E choice \in OfferedLanguages \cup {Undefined} :
         LET s == [setup EXCEPT !.language = choice]
         IN setup' = IF choice = Undefined
                     THEN SetupReturns(s, "showWarning: language cancelled")
                     ELSE IF FileExtension(choice) = ""
                     THEN SetupReturns(s, "showError: unsupported language")
                     ELSE [s EXCEPT !.pc = "awaitMkdir", !.mkdirCalled = TRUE,
                                    !.problemFileName =
                                        <<PlatformCode(s.platformDisplayName), "_">>
                                        \o NormalizedIdentifier(s.problemNumber)
                                        \o <<".", FileExtension(choice)>>]
    /\ UNCHANGED <<coreVars, act, secret, client>>

\* lines 131-143: createDirectory has resolved
DirectoryReturns ==
    /\ setup # <<>>
    /\ setup.pc = "awaitMkdir"
    /\ \E dirCreated \in BOOLEAN :
         setup' = IF ~dirCreated
                  THEN SetupReturns(setup, "showError: directory not created")
                  ELSE [setup EXCEPT !.pc = "awaitWrite", !.dirCreated = TRUE]
    /\ UNCHANGED <<coreVars, act, secret, client>>

\* lines 140-150: writeFile has resolved
SetupWriteReturns ==
    /\ setup # <<>>
    /\ setup.pc = "awaitWrite"
    /\ \E fileWritten \in BOOLEAN :
         setup' = IF ~fileWritten
                  THEN SetupReturns(setup, "showError: file not created")
                  ELSE [setup EXCEPT !.pc = "awaitOpen", !.fileWritten = TRUE]
    /\ UNCHANGED <<coreVars, act, secret, client>>

\* lines 150-162: openFileInEditor has resolved
SetupOpenReturns ==
    /\ setup # <<>>
    /\ setup.pc = "awaitOpen"
    /\ setup' = SetupReturns(setup, "showInformation: environment created")
    /\ UNCHANGED <<coreVars, act, secret, client>>

NextSetup ==
    \/ SetupStarted
    \/ PlatformPicked
    \/ NumberEntered
    \/ LanguagePicked
    \/ DirectoryReturns
    \/ SetupWriteReturns
    \/ SetupOpenReturns

SpecSetup == InitSetup /\ [][NextSetup]_vars

----------------------------------------------------------------------------
(* Vocabulary of the properties *)

Range(s) == {s[k] : k \in 1..Len(s)}

\* the heading lines of lines 259-272, in the order of the document
FixedHeadings ==
    <<"### 1. (Overall Analysis & Approach)",
      "### 2. (Code Structure & Readability)",
      "### 3. (Time Complexity Analysis)",
      "### 4. (Space Complexity Analysis)",
      "### 5. (Potential Issues & Bugs)",
      "### 6. (Suggestions for Improvement)",
      "### 7. (Alternative Approaches)">>

IsHeadingLine(t) == t \in Range(FixedHeadings)

\* the heading lines of a document, in the order they occur
HeadingLinesOf(doc) == SelectSeq(doc, IsHeadingLine)

\* 1-based position of the first occurrence of token t in doc, 0 if none
PositionOf(doc, t) ==
    IF t \in Range(doc) THEN CHOOSE k \in 1..Len(doc) : doc[k] = t /\ \A j \in 1..(k - 1) : doc[j] # t
    ELSE 0

\* the text that follows the heading of section n in doc, up to the next
\* heading or the end, without the blank lines that separate the blocks
BlockUnder(doc, n) ==
    LET from == PositionOf(doc, FixedHeadings[n])
        next == {k \in (from + 1)..Len(doc) : IsHeadingLine(doc[k])}
        to == IF next = {} THEN Len(doc)
              ELSE (CHOOSE k \in next : \A j \in next : k <= j) - 1
    IN Trim(SubSeq(doc, from + 1, to))

Resolved == 1..Len(sectionsContent)

\* the sections for which the raw response yields nothing
MissingInRaw == {n \in Sections : ExtractSectionContent(rawAiResponse, n) = <<>>}

\* text is what extraction yields for section n in this run, from the raw
\* response or from an answer to the repair prompt
IsGenuine(text, n) ==
    /\ text # <<>>
    /\ \/ text = ExtractSectionContent(rawAiResponse, n)
       \/ \E r \in RepairOutcomes(n) : r.defined /\ text = ExtractSectionContent(r.text, n)

RECURSIVE SumUpTo(_, _)
SumUpTo(f, n) == IF n = 0 THEN 0 ELSE f[n] + SumUpTo(f, n - 1)

\* the completion calls of a whole generation request: the initial request
\* that produced rawAiResponse and the repair calls
TotalCompletionCalls == 1 + SumUpTo(apiCalls, totalSections)

\* a repair attempt that fails: no response, or a response that extracts to
\* nothing
AttemptFailed(r, n) == ~r.defined \/ r.text = <<>> \/ ExtractSectionContent(r.text, n) = <<>>

----------------------------------------------------------------------------
(* Properties of processAnalysisResult, checked under Spec *)

\* C1: the returned document holds exactly the 7 fixed heading lines, one per
\* section index, in ascending order, and the block under heading n is the
\* content resolved for section n, however many sections were recovered or
\* filled with the placeholder.
C1_SevenHeadingBlocksInOrder ==
    pc = "done" =>
      /\ HeadingLinesOf(finalMarkdown) = FixedHeadings
      /\ \A n \in Sections : BlockUnder(finalMarkdown, n) = sectionsContent[n]

C1_Witness ==
    /\ pc = "done"
    /\ \E n \in Sections : sectionsContent[n] = Placeholder(n)
    /\ \E n \in Sections : apiCalls[n] = 1 /\ sectionsContent[n] # Placeholder(n)
    /\ \E n \in Sections : apiCalls[n] = 0

\* C2: every entry of the section map is non-empty and is either a text
\* extraction can yield for that section or exactly the placeholder of that
\* section (no placeholder token inside a genuine text), so the assembler's own
\* fallback text never reaches the document.
C2_GenuineOrPlaceholder ==
    /\ \A n \in Resolved : sectionsContent[n] # <<>>
    /\ pc = "loop" /\ i > totalSections =>
         /\ Len(sectionsContent) = totalSections
         /\ \A n \in Sections :
              \/ sectionsContent[n] = Placeholder(n)
              \/ /\ IsGenuine(sectionsContent[n], n)
                 /\ Range(sectionsContent[n]) \cap Range(Placeholder(n)) \subseteq {"\n"}
    /\ pc = "done" => AssemblerFallback \notin Range(finalMarkdown)

C2_Witness ==
    /\ pc = "loop"
    /\ i > totalSections
    /\ \E n \in Sections : sectionsContent[n] = Placeholder(n)
    /\ \E n \in Sections : n \in MissingInRaw /\ IsGenuine(sectionsContent[n], n)

\* C3: no section gets more than 2 repair calls; a failed attempt (no
\* response, or an extraction that is empty) adds exactly one to the retry
\* counter and a successful one leaves it; a missing section resolves to the
\* placeholder exactly when 2 attempts were made and both failed.
FailedAttemptCountsOnce ==
    pc = "awaitResponse" =>
      IF AttemptFailed(reResponse', i)
      THEN retryCount' = retryCount + 1 /\ sectionsContent' = sectionsContent
      ELSE retryCount' = retryCount /\ Len(sectionsContent') = Len(sectionsContent) + 1

PlaceholderIffAllFailed ==
    (pc \in {"reRequest", "awaitResponse"}
       /\ Len(sectionsContent') = Len(sectionsContent) + 1) =>
      (sectionsContent'[i] = Placeholder(i)
         <=> (retryCount = 2 /\ apiCalls[i] = 2 /\ pc = "reRequest"))

C3_BoundedRepair ==
    /\ [](\A n \in Sections : apiCalls[n] <= 2)
    /\ [][FailedAttemptCountsOnce]_vars
    /\ [][PlaceholderIffAllFailed]_vars

C3_Witness ==
    /\ pc = "loop"
    /\ \E n \in Resolved :
         sectionsContent[n] = Placeholder(n) /\ apiCalls[n] = 2 /\ retryCount = 2

\* C4: when attempt k is the first whose response extracts to a non-empty
\* text, the section's content is that extracted, trimmed text and k repair
\* calls were made for the section; a resolved section gets no further call;
\* and when only section 3 is missing and its first repair succeeds, the whole
\* request made exactly two completion calls.
RecoveredStoresExtraction ==
    (pc = "awaitResponse" /\ ~AttemptFailed(reResponse', i)) =>
      /\ sectionsContent' = Append(sectionsContent,
                                   Trim(ExtractSectionContent(reResponse'.text, i)))
      /\ sectionsContent'[i] # <<>>
      /\ apiCalls[i] = retryCount + 1
      /\ i' = i + 1

NoCallForResolvedSection == \A n \in Resolved : apiCalls'[n] = apiCalls[n]

ScenarioB ==
    (pc = "done" /\ MissingInRaw = {3} /\ delays = <<>>
       /\ sectionsContent[3] # Placeholder(3))
      => TotalCompletionCalls = 2

C4_RecoveredIsTerminal ==
    /\ [][RecoveredStoresExtraction]_vars
    /\ [][NoCallForResolvedSection]_vars
    /\ []ScenarioB

C4_Witness ==
    /\ pc = "done"
    /\ MissingInRaw = {3}
    /\ delays = <<>>
    /\ sectionsContent[3] = Repaired(3)
    /\ TotalCompletionCalls = 2

\* C5: the warning naming section n has been shown once if section n resolved
\* to the placeholder after 2 failed attempts and not at all otherwise; the
\* run still returns a document, with the placeholder under heading n.
C5_WarnedOncePerExhaustedSection ==
    /\ \A n \in Sections :
         warnings[n] = IF n \in Resolved /\ apiCalls[n] = 2
                          /\ sectionsContent[n] = Placeholder(n)
                       THEN 1 ELSE 0
    /\ pc = "done" =>
         /\ finalMarkdown # <<>>
         /\ \A n \in Sections :
              warnings[n] = 1 => BlockUnder(finalMarkdown, n) = Placeholder(n)

C5_Witness ==
    /\ pc = "done"
    /\ 5 \in MissingInRaw
    /\ warnings[5] = 1
    /\ BlockUnder(finalMarkdown, 5) = Placeholder(5)

\* C6: when the raw response yields a non-empty text for all 7 sections, no
\* repair call is made, no warning is shown, every stored content is the
\* extraction from the raw response, and the document holds no placeholder.
NoRepairNoWarning ==
    /\ \A n \in Sections : apiCalls[n] = 0 /\ warnings[n] = 0
    /\ pc \notin {"reRequest", "awaitResponse", "backoff"}

AllPresentInRaw == \A n \in Sections : ExtractSectionContent(rawAiResponse, n) # <<>>

RepairStartsAtZero == (pc = "loop" /\ pc' = "reRequest") => retryCount' = 0

StoredContentsKept ==
    \A n \in Resolved :
      n \in 1..Len(sectionsContent') /\ sectionsContent'[n] = sectionsContent[n]

ResolutionReturnsToLoop ==
    Len(sectionsContent') # Len(sectionsContent) =>
      /\ Len(sectionsContent') = Len(sectionsContent) + 1
      /\ pc' = "loop"
      /\ i' = i + 1
      /\ i' = Len(sectionsContent') + 1

EveryMissingSectionRepaired ==
    \A n \in Resolved :
      /\ apiCalls[n] >= 1 \/ ExtractSectionContent(rawAiResponse, n) # <<>>
      /\ sectionsContent[n] = Placeholder(n) => apiCalls[n] = 2

C10_RepairIndependentPerSection ==
    /\ [][RepairStartsAtZero]_vars
    /\ [][StoredContentsKept]_vars
    /\ [][ResolutionReturnsToLoop]_vars
    /\ [](pc = "done" => Len(sectionsContent) = 7 /\ EveryMissingSectionRepaired)

C10_Witness ==
    /\ pc = "done"
    /\ \E n, m \in Sections :
         /\ n < m
         /\ sectionsContent[n] = Placeholder(n)
         /\ apiCalls[m] = 2
         /\ sectionsContent[m] = Repaired(m)

----------------------------------------------------------------------------
(* Properties of _extractSectionContent, checked under SpecExtract *)

\* 1-based position of the first start marker of section n, 0 if none
FirstStart(text, n) == PositionOf(text, StartMarker(n))

\* 1-based position of the first end marker of section n after the first
\* start marker, 0 if there is none (or no start marker)
FirstEndAfterStart(text, n) ==
    LET from == FirstStart(text, n)
        ends == {k \in (from + 1)..Len(text) : text[k] = EndMarker(n)}
    IN IF from = 0 \/ ends = {} THEN 0 ELSE CHOOSE k \in ends : \A j \in ends : k <= j

WellFormed(text, n) == FirstEndAfterStart(text, n) # 0

\* the text strictly between the first start marker and the first end marker
\* after it
Between(text, n) == SubSeq(text, FirstStart(text, n) + 1, FirstEndAfterStart(text, n) - 1)

\* C7: when the text has no start marker of the section, or no end marker of
\* the section after the first start marker, the call returns, and returns
\* the empty string.
C7_NotFoundIsEmpty ==
    (xpc = "returned" /\ ~WellFormed(rawText, sectionNumber)) => extracted = <<>>

C7_Witness ==
    /\ xpc = "returned"
    /\ FirstStart(rawText, sectionNumber) # 0
    /\ EndMarker(sectionNumber) \in Range(rawText)
    /\ ~WellFormed(rawText, sectionNumber)
    /\ "text" \in Range(rawText)
    /\ extracted = <<>>

\* first position >= p (0-based) whose token is not a blank; Len(s) if none
SkipBlank(s, p) ==
    LET stop == {j \in p..(Len(s) - 1) : s[j + 1] # " "}
    IN IF stop = {} THEN Len(s) ELSE CHOOSE j \in stop : \A k \in stop : j <= k

\* c without its first line, when that line (after leading white space) is a
\* heading of section n: #s, blanks, the digit, a dot, anything up to the line
\* break; c itself otherwise
WithoutLeadingHeading(c, n) ==
    LET q1 == SkipSpace(c, 0)
        q2 == SkipHash(c, q1)
        q3 == SkipBlank(c, q2)
        q4 == SkipToNewline(c, q3 + 2)
    IN IF q2 > q1 /\ At(c, q3) = SectionDigit[n] /\ At(c, q3 + 1) = "."
       THEN SubSeq(c, (IF At(c, q4) = "\n" THEN q4 + 1 ELSE q4) + 1, Len(c))
       ELSE c

\* C8: for a text with a start marker and an end marker after it, the call
\* returns the text between them without a leading heading line of the
\* section and without surrounding white space, every other line kept as it
\* is.
C8_OnlyLeadingHeadingRemoved ==
    (xpc = "returned" /\ WellFormed(rawText, sectionNumber)) =>
      extracted = Trim(WithoutLeadingHeading(Between(rawText, sectionNumber), sectionNumber))

\* the text holds two pairs of markers of section n, one after the other
SeveralPairs(text, n) ==
    /\ WellFormed(text, n)
    /\ \E a, b \in (FirstEndAfterStart(text, n) + 1)..Len(text) :
         a < b /\ text[a] = StartMarker(n) /\ text[b] = EndMarker(n)

\* C9: when the text holds several pairs of markers of the section, the
\* result is the one of the text cut after the first end marker that follows
\* the first start marker: nothing after that marker, no content of a later
\* pair, reaches the result.
C9_FirstPairOnly ==
    (xpc = "returned" /\ SeveralPairs(rawText, sectionNumber)) =>
      /\ extracted = ExtractSectionContent(
                       SubSeq(rawText, 1, FirstEndAfterStart(rawText, sectionNumber)),
                       sectionNumber)
      /\ "later" \notin Range(extracted)
      /\ extracted = Trim(ReplaceHeader(Between(rawText, sectionNumber), sectionNumber))

C9_Witness ==
    /\ xpc = "returned"
    /\ SeveralPairs(rawText, sectionNumber)
    /\ "later" \in Range(rawText)
    /\ extracted = <<"text">>

----------------------------------------------------------------------------
(* Properties of the order of steps in a run, checked under Spec *)

\* C11: at most one completion call is in flight, and one is in flight exactly
\* while the run waits for it; a call starts only when none is in flight and
\* only for the section under examination; a section is stored, and the next
\* one examined, only when no call is in flight; sections are resolved in the
\* order 1, 2, ..., each before the next is examined.
OneSectionAtATime ==
    /\ inFlight \in {0, 1}
    /\ inFlight = 1 <=> pc = "awaitResponse"
    /\ pc # "done" => i = Len(sectionsContent) + 1
    /\ \A n \in Sections : n > i => apiCalls[n] = 0

CallStartsWhenNoneInFlight ==
    apiCalls' # apiCalls =>
      /\ inFlight = 0
      /\ \A n \in Sections : n # i => apiCalls'[n] = apiCalls[n]

ResultAwaitedBeforeUse ==
    (sectionsContent' # sectionsContent \/ i' # i) => inFlight' = 0

C11_SectionsProcessedSequentially ==
    /\ []OneSectionAtATime
    /\ [][CallStartsWhenNoneInFlight]_vars
    /\ [][ResultAwaitedBeforeUse]_vars

C11_Witness ==
    /\ pc = "awaitResponse"
    /\ inFlight = 1
    /\ apiCalls[i] = 2
    /\ \E n \in Resolved : apiCalls[n] >= 1

\* C12: while attempt a of a section is under way, the delays set for that
\* section so far are 1000 ms, 2000 ms, ..., (a - 1) x 1000 ms, none before the
\* first attempt; and an attempt other than the first starts only after the
\* timer set after the previous attempt has fired.
DelaysSoFar(a) == [k \in 1..(a - 1) |-> 1000 * k]

AttemptAfterTimer ==
    /\ pc' = "awaitResponse" => pc = "reRequest"
    /\ pc' = "reRequest" =>
         \/ pc = "loop" /\ delays' = <<>>
         \/ pc = "backoff" /\ delays' = delays /\ Len(delays) = apiCalls[i]

C12_BackoffProportionalToAttempt ==
    /\ [](pc = "awaitResponse" => delays = DelaysSoFar(apiCalls[i]))
    /\ [][AttemptAfterTimer]_vars

C12_Witness ==
    /\ pc = "awaitResponse"
    /\ apiCalls[i] = 2
    /\ delays = <<1000>>

\* C13: a delay is under way only between two attempts of a section: while
\* the timer runs, fewer than 2 attempts have been made for the section, so
\* that another attempt follows.
C13_NoDelayAfterFinalAttempt ==
    pc = "backoff" => apiCalls[i] < MAX_RETRY_ATTEMPTS

----------------------------------------------------------------------------
(* Properties of a run in its surroundings, checked under SpecEnv *)

\* C14: once cancellation is signalled, no further completion call is started.
NoCallOnceCancelled == cancelled => apiCalls' = apiCalls

C14_NoCallAfterCancellation == [][NoCallOnceCancelled]_vars

\* C15: the metadata record exists as soon as the processing of the sections
\* has begun, and it is the record of the caller's values and the date at the
\* start of the run, whatever the extractions and repairs of the run were.
SectionProcessingBegun ==
    Len(sectionsContent) > 0 \/ pc \in {"reRequest", "awaitResponse", "backoff"}

C15_MetadataFrozenBeforeSections ==
    /\ SectionProcessingBegun => metadata # NoMetadata
    /\ pc = "done" => metadata = Metadata(args)

----------------------------------------------------------------------------
(* Properties of the assembled document's head, checked under Spec *)

\* the part of a document before the heading of section 1
Preamble(doc) == SubSeq(doc, 1, PositionOf(doc, FixedHeadings[1]) - 1)

RECURSIVE SplitLines(_)
\* the lines of a text, without their line breaks
SplitLines(text) ==
    LET breaks == {k \in 1..Len(text) : text[k] = "\n"}
    IN IF breaks = {} THEN <<text>>
       ELSE LET k == CHOOSE b \in breaks : \A c \in breaks : b <= c
            IN <<SubSeq(text, 1, k - 1)>> \o SplitLines(SubSeq(text, k + 1, Len(text)))

\* platform, problem id and title were not supplied
AllUnsupplied ==
    args.platform = "Unknown" /\ args.problemId = "Unknown" /\ args.title = "Unknown"

Sentinels == {"Unknown Platform", "Unknown ID", "Untitled Problem"}

\* the metadata block of a document uses the three sentinel strings, in the
\* fixed key order, and no field of it is empty
SentinelMetadataBlock(lines) ==
    /\ lines[1] = <<"---">>
    /\ lines[2] = <<"platform: ", "Unknown Platform">>
    /\ lines[3] = <<"problemId: ", "Unknown ID">>
    /\ lines[4] = <<"title: ", "Untitled Problem">>
    /\ lines[5] = <<"language: ", args.language>> /\ args.language # ""
    /\ lines[6] = <<"analyzedAt: ", clockDate>> /\ clockDate # ""
    /\ lines[7] = <<"---">>

\* C16 as stated: with platform, problem id and title unsupplied, the metadata
\* block and the introductory sentence both use exactly the three sentinel
\* strings, and no metadata field is empty.
C16_SentinelsInBlockAndSentence ==
    (pc = "done" /\ AllUnsupplied) =>
      LET lines == SplitLines(Preamble(finalMarkdown))
      IN /\ SentinelMetadataBlock(lines)
         /\ Sentinels \subseteq Range(lines[11])

\* C16 as amended: with platform, problem id and title unsupplied, the metadata
\* block uses exactly the three sentinel strings and has no empty field; the
\* title line names "Unknown Platform" and "Unknown ID"; the introductory
\* sentence names "Unknown Platform" and the language only, the sentinels of the
\* problem id and of the title being left out of it.
C16_SentinelsInMetadataBlock ==
    (pc = "done" /\ AllUnsupplied) =>
      LET lines == SplitLines(Preamble(finalMarkdown))
      IN /\ SentinelMetadataBlock(lines)
         /\ lines[9] = <<"## ", "Unknown Platform", " ", "Unknown ID", " ",
                         args.language, " code analysis">>
         /\ lines[11] = <<"Unknown Platform", " ", args.language, " code is as follows.">>
         /\ Range(lines[11]) \cap Sentinels = {"Unknown Platform"}

C16_Witness ==
    /\ pc = "done"
    /\ AllUnsupplied
    /\ metadata.title = "Untitled Problem"
    /\ "Unknown ID" \in Range(finalMarkdown)

----------------------------------------------------------------------------
(* Properties of the analyze command, checked under SpecCommand and          *)
(* SpecProgram                                                               *)

\* C18: what the command stores in the analysis file is a document of the
\* assembler, with the 7 fixed headings in order, and not the raw text the
\* completion call returned.
C18_PersistedIsAssembledDocument ==
    writtenFile.written =>
      /\ HeadingLinesOf(writtenFile.content) = FixedHeadings
      /\ writtenFile.content # analysisResult.text

\* C19: when the command's completion call yields no text (undefined or the
\* empty string) the run ends there: no repair call, no document, no file, no
\* preview; when a repair call of the post-processor yields no usable text the
\* run goes on: the timer is set, no content is lost, and after the timer the
\* loop condition of that section is tested again.
NoTextAbortsCommand ==
    (cmdPc = "awaitAnalysis" /\ ~Truthy(analysisResult')) =>
      /\ cmdPc' = "finished"
      /\ writtenFile' = NoFile /\ ~previewed'
      /\ cmdCalls' = 1 /\ apiCalls' = ZeroPerSection
      /\ finalMarkdown' = <<>>

AbortedCommandStaysAborted ==
    (cmdPc = "finished" /\ ~Truthy(analysisResult)) =>
      /\ writtenFile = NoFile /\ ~previewed
      /\ inFlight = 0 /\ apiCalls = ZeroPerSection /\ finalMarkdown = <<>>

FailedRepairOnlyRetries ==
    /\ (pc = "awaitResponse" /\ AttemptFailed(reResponse', i)) =>
         /\ pc' = "backoff"
         /\ sectionsContent' = sectionsContent /\ i' = i
         /\ finalMarkdown' = <<>>
    /\ pc = "backoff" => pc' = "reRequest" /\ i' = i

C19_NoTextAbortsOnlyInitialRequest ==
    /\ [][NoTextAbortsCommand]_vars
    /\ []AbortedCommandStaysAborted
    /\ [][FailedRepairOnlyRetries]_vars

C19_Witness ==
    /\ cmdPc = "finished"
    /\ cmdCalls = 1
    /\ ~analysisResult.defined
    /\ writtenFile = NoFile
    /\ Len(notices) = 2

\* C20: while the sections are processed (from the extraction of section 1 up
\* to the step that resolves section 7) no step calls a notification or
\* status bar function.
C20_NoUiDuringSectionProcessing ==
    pc \in {"loop", "reRequest", "awaitResponse", "backoff"} => uiCalls = <<>>


----------------------------------------------------------------------------
(* Two concurrent generation requests, checked under SpecTwoRuns *)

RECURSIVE SoloRepair(_, _, _)
\* what a run on its own stores for a missing section n, given the responses
\* h it still has to receive and the attempts made so far; `rest` is what is
\* left for the later sections
SoloRepair(n, h, count) ==
    IF count >= MAX_RETRY_ATTEMPTS \/ h = <<>>
    THEN [content |-> Trim(Placeholder(n)), rest |-> h]
    ELSE IF Truthy(Head(h)) /\ Trim(ExtractSectionContent(Head(h).text, n)) # <<>>
    THEN [content |-> Trim(ExtractSectionContent(Head(h).text, n)), rest |-> Tail(h)]
    ELSE SoloRepair(n, Tail(h), count + 1)

RECURSIVE SoloSections(_, _, _, _)
\* the section contents a run on its own collects from section n on
SoloSections(raw, n, h, sc) ==
    IF n > totalSections THEN sc
    ELSE LET sectionContent == ExtractSectionContent(raw, n)
         IN IF Trim(sectionContent) # <<>>
            THEN SoloSections(raw, n + 1, h, SetEntry(sc, n, Trim(sectionContent)))
            ELSE LET fixed == SoloRepair(n, h, 0)
                 IN SoloSections(raw, n + 1, fixed.rest, SetEntry(sc, n, fixed.content))

\* the document of a run that has the whole program to itself
SoloDocument(raw, a, h) ==
    GenerateMarkdownTemplate(Metadata(a), SoloSections(raw, 1, h, <<>>))

\* a finished run returns what it would have returned alone
DocumentAsIfAlone ==
    \A k \in RunIds :
        runs[k].pc = "done" =>
            runs[k].document = SoloDocument(runs[k].raw, runs[k].args, runs[k].history)

\* a step that is not run k's leaves run k's collection and counter alone
LocalsTouchedByOwnerOnly ==
    \A k \in RunIds :
        runs'[k] = runs[k] => frames'[FrameOf(k)] = frames[FrameOf(k)]

\* C21: two generation requests under way at once share no mutable state in
\* the core: the section contents and the retry counter of a run are changed
\* by that run's steps only, and the document a run returns is the one it
\* would have returned alone, given the same collaborator responses.
C21_ConcurrentRunsAreIndependent ==
    /\ []DocumentAsIfAlone
    /\ [][LocalsTouchedByOwnerOnly]_vars

\* both runs finished with different documents, each having received a
\* repair response while the other was suspended in the middle of its work
C21_Witness ==
    /\ \A k \in RunIds : runs[k].pc = "done" /\ runs[k].overlapped
                         /\ Len(runs[k].history) = MAX_RETRY_ATTEMPTS
    /\ runs[1].document # runs[2].document


----------------------------------------------------------------------------
(* Properties of AnalyzeCodeCommand.run, checked under SpecCommand *)

\* part occurs in text as a run of consecutive tokens
HasPart(text, part) ==
    \E k \in 0..(Len(text) - Len(part)) : SubSeq(text, k + 1, k + Len(part)) = part

\* the guards of lines 57-92 let the run through
GuardsPass ==
    /\ cmdInput.initialized
    /\ cmdInput.hasEditor
    /\ Trim(cmdInput.code) # <<>>

\* the run is past its guards
PastGuards == cmdPc \in {"awaitAnalysis", "awaitWrite", "awaitPreview", "finished"}

----------------------------------------------------------------------------
(* Termination, checked under SpecTerminate *)

\* the repair calls of the run so far
RepairCalls == SumUpTo(apiCalls, totalSections)

\* C23: provided every completion call returns in the end, a run of
\* processAnalysisResult ends and returns a document, and it makes at most
\* 7 * 2 = 14 completion calls on the way.
C23_RunTerminatesWithinFourteenCalls ==
    /\ <>(pc = "done" /\ finalMarkdown # <<>>)
    /\ [](RepairCalls <= 14)

\* the run ended after the 14 calls of the worst case
C23_Witness ==
    /\ pc = "done"
    /\ finalMarkdown # <<>>
    /\ RepairCalls = 14


----------------------------------------------------------------------------
(* Activation, checked under SpecActivate *)

\* C24: in every activation the keybinding guide message is displayed no
\* more than one time, whichever path the activation takes, and it is not
\* displayed at all in an activation that begins with
\* aiNote.hasSeenKeybindingGuide true.
C24_GuideShownAtMostOnce ==
    act # <<>> =>
        /\ act.shown <= 1
        /\ act.seenAtStart => act.shown = 0


----------------------------------------------------------------------------
(* The guards and the file of AnalyzeCodeCommand.run, checked under          *)
(* SpecCommand                                                               *)

WarningNotices ==
    {"showWarning: API key needed", "showWarning: client not initialized",
     "showWarning: no active editor", "showWarning: no code",
     "showWarning: no workspace folder"}

ErrorNotices ==
    {"showError: client", "showError: cannot save", "showError: write failed",
     "showError: save failed", "showError: analysis failed"}

\* C25: the completion call is made only when the client is initialized, an
\* editor is active and the document text is not empty or white space; when
\* one of the three fails the run is over after a warning, with no
\* completion call, no file written and no preview.
C25_CallOnlyAfterGuards ==
    /\ cmdCalls > 0 => GuardsPass
    /\ (cmdPc \notin {"idle", "initialize"} /\ ~GuardsPass) =>
          /\ cmdPc = "finished"
          /\ notices # <<>>
          /\ Range(notices) \subseteq WarningNotices
          /\ cmdCalls = 0
          /\ sentPrompt = <<>>
          /\ writtenFile = NoFile
          /\ ~previewed

\* a run on a document of white space only is over after the warning
C25_Witness ==
    /\ cmdPc = "finished"
    /\ cmdInput.initialized
    /\ cmdInput.hasEditor
    /\ cmdInput.code = <<" ", "\n">>
    /\ notices = <<"showWarning: no code">>
    /\ cmdCalls = 0

\* C26: the preview is opened only after the analysis file was written; when
\* there is no workspace root or the write fails, an error is shown, no
\* preview is opened and the success notification is not shown.
C26_PreviewOnlyAfterWrite ==
    /\ (previewed \/ cmdPc = "awaitPreview") => writtenFile.written
    /\ "showInformation: note saved" \in Range(notices) => writtenFile.written
    /\ (cmdPc = "finished" /\ HasAnalysis(analysisResult) /\ ~writtenFile.written) =>
          /\ ~previewed
          /\ Range(notices) \cap ErrorNotices # {}
          /\ "showInformation: note saved" \notin Range(notices)
    /\ (cmdPc = "finished" /\ HasAnalysis(analysisResult) /\ ~cmdInput.hasWorkspace) =>
          ~writtenFile.written

\* the write failed in a workspace: the run is over with the two errors
C26_Witness ==
    /\ cmdPc = "finished"
    /\ Truthy(analysisResult)
    /\ cmdInput.hasWorkspace
    /\ ~writtenFile.written
    /\ ~previewed
    /\ notices = <<"showError: write failed", "showError: save failed">>


\* C29: the status bar progress message stays visible for as long as the run
\* of the command is in progress (from the call of generateContent to the
\* finally block of the run); nothing else hides it in between.
C29_StatusBarVisibleWhileRunning ==
    cmdPc \in {"awaitAnalysis", "awaitWrite", "awaitPreview"} => statusBar


----------------------------------------------------------------------------
(* generateContent, checked under SpecClient *)

\* the outcomes of the provider call the claim speaks of
ClaimedOutcomes ==
    {"text", "no response", "no text, candidates", "no text", "call throws",
     "text() throws"}

\* C27: generateContent never rejects: when the provider call yields text,
\* a response without text, or throws an error of one of the classified
\* causes, the promise resolves, to the response text or to undefined; when
\* the client is not initialized it resolves to undefined and the provider
\* is not called.
C27_GenerateContentResolves ==
    client # <<>> =>
        /\ (client.pc = "settled" /\ client.outcome.kind \in ClaimedOutcomes) =>
              /\ client.settled = "resolved"
              /\ client.result = IF client.outcome.kind = "text"
                                 THEN TextResponse(client.outcome.text)
                                 ELSE NoResponse
        /\ (client.pc = "settled" /\ ~client.genAI) =>
              /\ client.settled = "resolved"
              /\ client.result = NoResponse
              /\ client.providerCalls = 0

\* the provider call threw the quota error and the promise resolved to
\* undefined after two error messages
C27_Witness ==
    /\ client # <<>>
    /\ client.pc = "settled"
    /\ client.outcome.kind = "call throws"
    /\ client.outcome.message = "quota exceeded"
    /\ client.settled = "resolved"
    /\ ~client.result.defined
    /\ Len(client.errors) = 2


----------------------------------------------------------------------------
(* The stored API key, checked under SpecSecret *)

\* the secret storage holds no key or a key of at least one character
StoredKeyAbsentOrNonEmpty ==
    secret # <<>> => (secret.stored.present => secret.stored.value # <<>>)

\* a store of the empty key, a prompt answered with nothing or white space
\* only, and a cancelled prompt leave the stored key as it was
EmptyKeyChangesNothing ==
    (/\ secret # <<>>
     /\ \/ secret'.lastOp = "store" /\ secret'.lastArg.value = <<>>
        \/ secret'.lastOp = "prompt" /\ Trim(secret'.lastArg.value) = <<>>)
    => secret'.stored = secret.stored

\* C28: after any sequence of store, prompt and delete operations the stored
\* API key is absent or a non-empty string; storing an empty key, entering an
\* empty or white-space-only key in the prompt, and cancelling the prompt
\* leave the stored key unchanged.
C28_StoredKeyNeverEmpty ==
    /\ []StoredKeyAbsentOrNonEmpty
    /\ [][EmptyKeyChangesNothing]_vars

\* a prompt was answered with white space only and the key stored before is
\* still there
C28_Witness ==
    /\ secret # <<>>
    /\ secret.lastOp = "prompt"
    /\ secret.lastArg = Typed(<<" ", "\n">>)
    /\ secret.stored = Key(<<"B">>)
    /\ secret.message = "key must not be empty"


----------------------------------------------------------------------------
(* SetupProblemCommand.run, checked under SpecSetup *)

\* C30: every platform and every language the quick picks offer leads to the
\* creation of the problem directory and the solution file: once a platform,
\* a problem number and a language are chosen, createDirectory is called; no
\* offered option ends in the unknown-platform or unsupported-language
\* branch; and the file is written only after the directory was created.
C30_OfferedOptionsLeadToCreation ==
    setup # <<>> =>
        /\ "showError: unknown platform" \notin Range(setup.notices)
        /\ "showError: unsupported language" \notin Range(setup.notices)
        /\ setup.language # Undefined => setup.mkdirCalled
        /\ setup.fileWritten => setup.dirCreated

====
